---- MODULE Spec2Model ----
(***************************************************************************)
(* Model of midi2lrc.py: tempo map, tick-to-seconds conversion, syllable   *)
(* grouping, LRC time formatting and the midi_to_lrc pipeline.             *)
(*                                                                         *)
(* Representation.  A Python str is a sequence of one-character strings.   *)
(* A float number of seconds is the exact rational num/den: the model      *)
(* stores the numerator, the denominator is fixed for a run (variable den).*)
(* An event (time, text) is the pair <<num, chars>>.                       *)
(***************************************************************************)
EXTENDS Integers, Sequences, FiniteSets, TLC

VARIABLES pc, den, events, threshold, i, current_group, current_time, grouped,
          mid, tempo_map, tick, seconds, prev_seconds, fmt_seconds, fmt_out,
          env, llm_reply, target_track, filtered_events, lrc_file

vars == <<pc, den, events, threshold, i, current_group, current_time, grouped,
          mid, tempo_map, tick, seconds, prev_seconds, fmt_seconds, fmt_out,
          env, llm_reply, target_track, filtered_events, lrc_file>>

grouperVars == <<events, threshold, i, current_group, current_time, grouped>>
tempoVars == <<mid, tempo_map, tick, seconds, prev_seconds>>
fmtVars == <<fmt_seconds, fmt_out>>
pipeVars == <<env, llm_reply, target_track, filtered_events, lrc_file>>

(***************************************************************************)
(* str helpers                                                             *)
(***************************************************************************)
Whitespace == {" ", "\n", "\r", "\t"}
Upper == {"A","B","C","D","E","F","G","H","I","J","K","L","M","N","O","P","Q","R","S","T","U","V","W","X","Y","Z"}
Lower == {"a","b","c","d","e","f","g","h","i","j","k","l","m","n","o","p","q","r","s","t","u","v","w","x","y","z"}
Digit == {"0","1","2","3","4","5","6","7","8","9"}
Terminators == {".", "!", "?"}

IsUpper(c) == c \in Upper
IsLower(c) == c \in Lower
IsAlnum(c) == c \in Upper \cup Lower \cup Digit

RECURSIVE LStrip(_)
LStrip(s) == IF s # <<>> /\ Head(s) \in Whitespace THEN LStrip(Tail(s)) ELSE s

RECURSIVE RStrip(_)
RStrip(s) ==
  IF s # <<>> /\ s[Len(s)] \in Whitespace THEN RStrip(SubSeq(s, 1, Len(s) - 1)) ELSE s

Strip(s) == RStrip(LStrip(s))

\* "not text or not text.strip()"
IsBlank(s) == s = <<>> \/ Strip(s) = <<>>

StartsWith(s, p) == Len(s) >= Len(p) /\ SubSeq(s, 1, Len(p)) = p

EndsWithAny(s, cs) == s # <<>> /\ s[Len(s)] \in cs

\* ''.join([t for _, t in group])
RECURSIVE JoinTexts(_)
JoinTexts(group) ==
  IF group = <<>> THEN <<>> ELSE Head(group)[2] \o JoinTexts(Tail(group))

(***************************************************************************)
(* group_syllables_by_time                                                 *)
(***************************************************************************)
\* lines 194-206: the merge decision for a non-blank fragment
ShouldGroupLe(time_diff, prev_text, text, th) ==
  IF time_diff <= th
    THEN IF EndsWithAny(prev_text, Terminators) THEN FALSE
         ELSE IF IsUpper(text[1]) /\ prev_text # <<>> /\ prev_text[Len(prev_text)] \in Terminators
                THEN FALSE
                ELSE TRUE
    ELSE FALSE

ShouldGroup(time_diff, prev_text, text, th) ==
  IF time_diff < th
    THEN IF EndsWithAny(prev_text, Terminators) THEN FALSE
         ELSE IF IsUpper(text[1]) /\ prev_text # <<>> /\ prev_text[Len(prev_text)] \in Terminators
                THEN FALSE
                ELSE TRUE
    ELSE FALSE

\* lines 211-214 and 221-224: close a group, dropping it when its text is blank
CloseGroup(out, group, time) ==
  LET combined_text == JoinTexts(group)
  IN IF ~IsBlank(combined_text) THEN Append(out, <<time, combined_text>>) ELSE out

\* lines 185-218: one iteration of the loop on fragment e
\* st = [current_group, current_time, grouped]
LoopBody(st, e, th) ==
  LET time == e[1]
      text == e[2]
  IN IF IsBlank(text) THEN st
     ELSE LET last == st.current_group[Len(st.current_group)]
              time_diff == time - last[1]
              prev_text == Strip(last[2])
          IN IF ShouldGroup(time_diff, prev_text, text, th)
               THEN [st EXCEPT !.current_group = Append(@, e)]
               ELSE [current_group |-> <<e>>,
                     current_time  |-> time,
                     grouped       |-> CloseGroup(st.grouped, st.current_group, st.current_time)]

RECURSIVE GroupLoop(_, _, _, _)
GroupLoop(st, evs, k, th) ==
  IF k > Len(evs) THEN st ELSE GroupLoop(LoopBody(st, evs[k], th), evs, k + 1, th)

\* the whole function, lines 163-230
GroupSyllablesByTime(evs, th) ==
  IF evs = <<>> THEN <<>>
  ELSE LET st0 == [current_group |-> <<evs[1]>>, current_time |-> evs[1][1], grouped |-> <<>>]
           st  == GroupLoop(st0, evs, 2, th)
       IN CloseGroup(st.grouped, st.current_group, st.current_time)

(***************************************************************************)
(* MIDI messages and files (mido): a message has a type and a delta time;  *)
(* the other attributes are those of its type                              *)
(***************************************************************************)
Msg(type, time, tempo, text, name, data) ==
  [type |-> type, time |-> time, tempo |-> tempo, text |-> text, name |-> name, data |-> data]

SetTempo(time, tempo)  == Msg("set_tempo", time, tempo, <<>>, <<>>, <<>>)
NoteOn(time)           == Msg("note_on", time, 0, <<>>, <<>>, <<>>)
TrackNameMsg(time, nm) == Msg("track_name", time, 0, <<>>, nm, <<>>)
Lyrics(time, text)     == Msg("lyrics", time, 0, text, <<>>, <<>>)
TextMsg(time, text)    == Msg("text", time, 0, text, <<>>, <<>>)
Sysex(time, data)      == Msg("sysex", time, 0, <<>>, <<>>, data)

NoMid == [tracks |-> <<>>, ticks_per_beat |-> 1]

(***************************************************************************)
(* build_tempo_map                                                         *)
(***************************************************************************)
DefaultTempo == 500000

\* lines 38-41: the tempo events of one track, abs_tick accumulated from its deltas
RECURSIVE TrackTempoEvents(_, _)
TrackTempoEvents(track, abs_tick) ==
  IF track = <<>> THEN <<>>
  ELSE LET msg == Head(track)
           t   == abs_tick + msg.time
       IN (IF msg.type = "set_tempo" THEN << <<t, msg.tempo>> >> ELSE <<>>)
          \o TrackTempoEvents(Tail(track), t)

\* lines 33-41: the pool, seeded with the default, abs_tick = 0 at each track
RECURSIVE PooledTempoEvents(_)
PooledTempoEvents(tracks) ==
  IF tracks = <<>> THEN <<>>
  ELSE TrackTempoEvents(Head(tracks), 0) \o PooledTempoEvents(Tail(tracks))

\* list.sort(key=lambda x: x[0]): stable, ascending by first component
RECURSIVE InsertByKey(_, _)
InsertByKey(sorted, x) ==
  IF sorted = <<>> THEN <<x>>
  ELSE IF sorted[Len(sorted)][1] <= x[1] THEN Append(sorted, x)
  ELSE Append(InsertByKey(SubSeq(sorted, 1, Len(sorted) - 1), x), sorted[Len(sorted)])

RECURSIVE SortByKey(_)
SortByKey(s) ==
  IF s = <<>> THEN <<>>
  ELSE InsertByKey(SortByKey(SubSeq(s, 1, Len(s) - 1)), s[Len(s)])

\* lines 45-52 with the first entry of a tick kept instead of the last
RECURSIVE CleanedFirstWins(_, _, _)
CleanedFirstWins(tempo_events, cleaned, last_tick) ==
  IF tempo_events = <<>> THEN cleaned
  ELSE LET t == Head(tempo_events)[1]
       IN IF t # last_tick
            THEN CleanedFirstWins(Tail(tempo_events), Append(cleaned, Head(tempo_events)), t)
            ELSE CleanedFirstWins(Tail(tempo_events), cleaned, last_tick)

\* lines 45-52: one breakpoint per tick, a later entry overwrites
RECURSIVE Cleaned(_, _, _)
Cleaned(tempo_events, cleaned, last_tick) ==
  IF tempo_events = <<>> THEN cleaned
  ELSE LET t == Head(tempo_events)[1]
       IN IF t # last_tick
            THEN Cleaned(Tail(tempo_events), Append(cleaned, Head(tempo_events)), t)
            ELSE Cleaned(Tail(tempo_events),
                         [cleaned EXCEPT ![Len(cleaned)] = Head(tempo_events)], last_tick)

BuildTempoMap(m) ==
  Cleaned(SortByKey(<< <<0, DefaultTempo>> >> \o PooledTempoEvents(m.tracks)), <<>>, -1)

(***************************************************************************)
(* ticks_to_seconds.  The result (delta/ticks_per_beat)*(tempo/1e6) summed *)
(* over the segments is the rational num/SecondsDen(ticks_per_beat); the   *)
(* operators return num.                                                   *)
(***************************************************************************)
SecondsDen(ticks_per_beat) == ticks_per_beat * 1000000

\* a segment charged at the default tempo whatever the tempo map says
SegmentSecondsDefault(delta_ticks, last_tempo) == delta_ticks * DefaultTempo

\* lines 71, 76, 82
SegmentSeconds(delta_ticks, last_tempo) == delta_ticks * last_tempo

\* lines 66-83
RECURSIVE TicksToSecondsLoop(_, _, _, _, _, _)
TicksToSecondsLoop(tk, tm, k, secs, last_tick, last_tempo) ==
  IF k > Len(tm)
    THEN secs + SegmentSeconds(tk - last_tick, last_tempo)
    ELSE LET tempo_tick == tm[k][1]
             tempo      == tm[k][2]
         IN IF tk <= tempo_tick
              THEN secs + SegmentSeconds(tk - last_tick, last_tempo)
              ELSE TicksToSecondsLoop(tk, tm, k + 1,
                                      secs + SegmentSeconds(tempo_tick - last_tick, last_tempo),
                                      tempo_tick, tempo)

TicksToSeconds(tk, tm) == TicksToSecondsLoop(tk, tm, 2, 0, 0, tm[1][2])

(***************************************************************************)
(* format_lrc_time and the timestamp parser of correct_with_llm            *)
(***************************************************************************)
DigitChars == <<"0", "1", "2", "3", "4", "5", "6", "7", "8", "9">>

\* str(n) for n >= 0
RECURSIVE Decimal(_)
Decimal(n) == IF n < 10 THEN <<DigitChars[n + 1]>> ELSE Decimal(n \div 10) \o <<DigitChars[(n % 10) + 1]>>

\* f"{n:02d}": at least two digits, zero-padded
Pad2(n) == IF n < 10 THEN <<"0">> \o Decimal(n) ELSE Decimal(n)

\* round(x) of Python 3 for x = a/b >= 0: nearest integer, ties to even
RoundHalfEven(a, b) ==
  LET q == a \div b
      r == a % b
  IN IF 2 * r > b THEN q + 1
     ELSE IF 2 * r < b THEN q
     ELSE IF q % 2 = 0 THEN q ELSE q + 1

\* lines 150-159 without the rounding correction
LrcFieldsNoCarry(num, d) ==
  LET m  == num \div (60 * d)
      s  == (num % (60 * d)) \div d
      hs == RoundHalfEven((num % d) * 100, d)
  IN <<m, s, hs>>

\* lines 150-159: the fields (m, s, hs) for seconds = num/d
LrcFields(num, d) ==
  LET m  == num \div (60 * d)
      s  == (num % (60 * d)) \div d
      hs == RoundHalfEven((num % d) * 100, d)
  IN IF hs = 100
       THEN IF s + 1 = 60 THEN <<m + 1, 0, 0>> ELSE <<m, s + 1, 0>>
       ELSE <<m, s, hs>>

\* line 160
FormatLrcTime(num, d) ==
  LET f == LrcFields(num, d)
  IN <<"[">> \o Pad2(f[1]) \o <<":">> \o Pad2(f[2]) \o <<".">> \o Pad2(f[3]) \o <<"]">>

\* int(s) of a string of decimal digits
RECURSIVE IntOf(_)
IntOf(s) ==
  IF s = <<>> THEN 0
  ELSE 10 * IntOf(SubSeq(s, 1, Len(s) - 1))
       + (CHOOSE v \in 0..9 : DigitChars[v + 1] = s[Len(s)])

\* the text matched by (.*): up to the first newline
RECURSIVE UpToNewline(_)
UpToNewline(s) ==
  IF s = <<>> \/ Head(s) = "\n" THEN <<>> ELSE <<Head(s)>> \o UpToNewline(Tail(s))

\* line 284: re.match(r'\[(\d{2}):(\d{2})\.(\d{2})\](.*)', line)
LrcMatch(line) ==
  /\ Len(line) >= 10
  /\ line[1] = "[" /\ line[4] = ":" /\ line[7] = "." /\ line[10] = "]"
  /\ \A k \in {2, 3, 5, 6, 8, 9} : line[k] \in Digit

\* lines 286-288: the groups of a matching line
LrcGroups(line) ==
  [m    |-> IntOf(SubSeq(line, 2, 3)),
   s    |-> IntOf(SubSeq(line, 5, 6)),
   hs   |-> IntOf(SubSeq(line, 8, 9)),
   text |-> UpToNewline(SubSeq(line, 11, Len(line)))]

(***************************************************************************)
(* is_control_character, extract_lyrics_from_track                         *)
(***************************************************************************)
Dashes == <<"-", "-", "-">>

\* control_prefixes, lines 100 and 355
ControlPrefixes ==
  {<<"C","L">>, <<"C","s","P">>, <<"C","@">>, <<"C","L","X">>, <<"C","L","Z">>, <<"C","P">>}

\* lines 86-110
IsControlCharacter(text) ==
  IF IsBlank(text) THEN TRUE
  ELSE LET cleaned == Strip(text)
       IN IF StartsWith(cleaned, Dashes) \/ cleaned = Dashes THEN TRUE
          ELSE \E prefix \in ControlPrefixes :
                 /\ StartsWith(cleaned, prefix)
                 /\ LET rest == SubSeq(cleaned, Len(prefix) + 1, Len(cleaned))
                    IN ~(\E k \in 1..Len(rest) : IsAlnum(rest[k]))

\* lines 126-140: the text of a message, <<>> for None.  latin1 maps each byte
\* to the character of the same code, so data is held as those characters.
MsgText(msg) ==
  IF msg.type \in {"lyrics", "text"} THEN msg.text
  ELSE IF msg.type = "sysex" THEN Strip(msg.data)
  ELSE <<>>

\* lines 123-144
RECURSIVE ExtractLoop(_, _, _)
ExtractLoop(track, abs_tick, tm) ==
  IF track = <<>> THEN <<>>
  ELSE LET msg  == Head(track)
           t    == abs_tick + msg.time
           text == MsgText(msg)
       IN (IF text # <<>> /\ ~IsControlCharacter(text)
             THEN << <<TicksToSeconds(t, tm), text>> >> ELSE <<>>)
          \o ExtractLoop(Tail(track), t, tm)

\* lines 113-146
ExtractLyricsFromTrack(track, tm) == ExtractLoop(track, 0, tm)

(***************************************************************************)
(* is_real_text                                                            *)
(***************************************************************************)
\* the pieces of s between the characters of seps, empty pieces included
RECURSIVE SplitOn(_, _, _)
SplitOn(s, seps, cur) ==
  IF s = <<>> THEN <<cur>>
  ELSE IF Head(s) \in seps THEN <<cur>> \o SplitOn(Tail(s), seps, <<>>)
  ELSE SplitOn(Tail(s), seps, Append(cur, Head(s)))

\* the non-empty elements of re.split(r'[\s\-\~@]+', clean); the empty
\* elements re.split gives at the ends are dropped by every use (f and ...)
Fragments(clean) ==
  SelectSeq(SplitOn(clean, Whitespace \cup {"-", "~", "@"}, <<>>), LAMBDA f : f # <<>>)

\* str.count(sub): non-overlapping occurrences, left to right
RECURSIVE Count(_, _)
Count(s, sub) ==
  IF Len(s) < Len(sub) THEN 0
  ELSE IF SubSeq(s, 1, Len(sub)) = sub
         THEN 1 + Count(SubSeq(s, Len(sub) + 1, Len(s)), sub)
         ELSE Count(Tail(s), sub)

HasLower(f) == \E k \in 1..Len(f) : IsLower(f[k])

\* lines 357-398
IsRealText(text) ==
  LET clean == Strip(text)
      fragments == Fragments(clean)
      short_fragments == SelectSeq(fragments, LAMBDA f : Len(f) <= 3)
      long_fragments == SelectSeq(fragments, LAMBDA f : Len(f) > 3)
      lowercase_count == Cardinality({k \in 1..Len(clean) : IsLower(clean[k])})
  IN IF Len(clean) < 2 THEN FALSE
     ELSE IF StartsWith(clean, Dashes) THEN FALSE
     ELSE IF \E prefix \in ControlPrefixes : StartsWith(clean, prefix) /\ Count(clean, prefix) >= 2
       THEN FALSE
     ELSE IF Len(short_fragments) > 0 /\ Len(long_fragments) = 0 THEN FALSE
     ELSE IF \E k \in 1..Len(fragments) : Len(fragments[k]) >= 4 /\ HasLower(fragments[k])
       THEN TRUE
     ELSE IF lowercase_count >= 3 /\ (\E k \in 1..Len(clean) : clean[k] = " ") THEN TRUE
     ELSE FALSE

\* lines 354, 400-404: index (from 0) of the first real text, 0 when there is none
RECURSIVE FirstRealTextIdx(_, _)
FirstRealTextIdx(evs, k) ==
  IF k > Len(evs) THEN 0
  ELSE IF IsRealText(evs[k][2]) THEN k - 1
  ELSE FirstRealTextIdx(evs, k + 1)

\* a filter that keeps the real texts only
FilterRealOnly(evs) == SelectSeq(evs, LAMBDA e : IsRealText(e[2]))

\* lines 400-407: events[first_real_text_idx:]
FilterEvents(evs) == SubSeq(evs, FirstRealTextIdx(evs, 1) + 1, Len(evs))

(***************************************************************************)
(* correct_with_llm                                                        *)
(***************************************************************************)
\* line 287: int(m)*60 + int(s) + int(hs)/100.0 as a numerator over d (d a multiple of 100)
LrcSeconds(g, d) == (g.m * 60 + g.s) * d + g.hs * (d \div 100)

\* lines 278-290: the entries parsed from the reply
ParseReply(content, d) ==
  LET corrected_text  == Strip(content)
      pieces          == SplitOn(corrected_text, {"|"}, <<>>)
      stripped        == [k \in 1..Len(pieces) |-> Strip(pieces[k])]
      corrected_lines == SelectSeq(stripped, LAMBDA l : l # <<>>)
      matching        == SelectSeq(corrected_lines, LrcMatch)
  IN [k \in 1..Len(matching) |->
        <<LrcSeconds(LrcGroups(matching[k]), d), Strip(LrcGroups(matching[k]).text)>>]

\* lines 292-297 returning the parsed list even when it is empty
ParsedOrOriginalNoFallback(evs, result) == result

\* lines 292-297
ParsedOrOriginal(evs, result) == IF result # <<>> THEN result ELSE evs

\* lines 243-304.  e is the environment (API key set, prompt file present),
\* reply what the request does: raises, or returns a message content
CorrectWithLlm(evs, e, reply, d) ==
  IF ~e.api_key THEN evs
  ELSE IF ~e.prompt_file THEN evs
  ELSE IF reply.kind = "exception" THEN evs
  ELSE ParsedOrOriginal(evs, ParseReply(reply.content, d))

(***************************************************************************)
(* midi_to_lrc                                                             *)
(***************************************************************************)
TRACK_NAME == <<"S","y","s","E","x","-","D","a","t","e","n">>

\* TIME_THRESHOLD = 0.5 as a numerator over d
TimeThreshold(d) == d \div 2

HasTrackName(track) ==
  \E k \in 1..Len(track) : track[k].type = "track_name" /\ track[k].name = TRACK_NAME

\* a search that falls back to the first track
RECURSIVE FindTargetTrackOrFirst(_, _)
FindTargetTrackOrFirst(tracks, k) ==
  IF k > Len(tracks) THEN (IF tracks = <<>> THEN 0 ELSE 1)
  ELSE IF HasTrackName(tracks[k]) THEN k
  ELSE FindTargetTrackOrFirst(tracks, k + 1)

\* lines 315-323: index of the first track holding the name, 0 for None
RECURSIVE FindTargetTrack(_, _)
FindTargetTrack(tracks, k) ==
  IF k > Len(tracks) THEN 0
  ELSE IF HasTrackName(tracks[k]) THEN k
  ELSE FindTargetTrack(tracks, k + 1)

\* ' '.join(words)
RECURSIVE JoinWords(_)
JoinWords(words) ==
  IF words = <<>> THEN <<>>
  ELSE IF Len(words) = 1 THEN words[1]
  ELSE words[1] \o <<" ">> \o JoinWords(Tail(words))

\* lines 422-424: newlines to spaces, then ' '.join(clean_text.split())
CleanText(text) ==
  LET replaced == [k \in 1..Len(text) |-> IF text[k] \in {"\n", "\r"} THEN " " ELSE text[k]]
  IN JoinWords(SelectSeq(SplitOn(replaced, Whitespace, <<>>), LAMBDA w : w # <<>>))

\* lines 415-431: what the loop writes into the file
RECURSIVE WrittenText(_, _)
WrittenText(evs, d) ==
  IF evs = <<>> THEN <<>>
  ELSE LET t_sec == Head(evs)[1]
           text  == Head(evs)[2]
           rest  == WrittenText(Tail(evs), d)
       IN IF IsBlank(text) THEN rest
          ELSE IF CleanText(text) = <<>> THEN rest
          ELSE FormatLrcTime(t_sec, d) \o CleanText(text) \o <<"\n">> \o rest

\* the pipeline variables outside a run of midi_to_lrc
PipeIdle ==
  /\ env = [USE_LLM |-> FALSE, api_key |-> FALSE, prompt_file |-> FALSE]
  /\ llm_reply = [kind |-> "none", content |-> <<>>]
  /\ target_track = 0
  /\ filtered_events = <<>>
  /\ lrc_file = [opened |-> FALSE, content |-> <<>>]

(***************************************************************************)
(* Specification of the grouper run step by step on a sorted input         *)
(***************************************************************************)
MaxEvents == 3

\* times in tenths of a second (den = 10)
TimeValues == {0, 1, 2, 9}
ThresholdValues == {2, 5}

T_Hel   == <<"H","e","l">>
T_lo    == <<"l","o"," ">>
T_World == <<"W","o","r","l","d">>
T_Yes   == <<"Y","e","s",".">>
T_No    == <<"N","o">>
T_Space == <<" ">>
FragmentTexts == {T_Hel, T_lo, T_World, T_Yes, T_No, T_Space}

\* chronological order, as after events.sort at line 332
Chronological(evs) == \A k \in 1..(Len(evs) - 1) : evs[k][1] <= evs[k + 1][1]

InitGroup ==
  /\ pc = "group_start"
  /\ den = 10
  /\ \E n \in 0..MaxEvents : \E ts \in [1..n -> TimeValues], xs \in [1..n -> FragmentTexts] :
       events = [k \in 1..n |-> <<ts[k], xs[k]>>]
  /\ Chronological(events)
  /\ threshold \in ThresholdValues
  /\ i = 0
  /\ current_group = <<>>
  /\ current_time = 0
  /\ grouped = <<>>
  /\ mid = NoMid
  /\ tempo_map = <<>>
  /\ tick = 0
  /\ seconds = 0
  /\ prev_seconds = 0
  /\ fmt_seconds = 0
  /\ fmt_out = <<>>
  /\ PipeIdle

\* lines 174-179
GroupBegin ==
  /\ pc = "group_start"
  /\ IF events = <<>>
       THEN /\ pc' = "group_done"
            /\ UNCHANGED <<i, current_group, current_time, grouped>>
       ELSE /\ pc' = "group_loop"
            /\ current_group' = <<events[1]>>
            /\ current_time' = events[1][1]
            /\ i' = 2
            /\ UNCHANGED grouped
  /\ UNCHANGED <<den, events, threshold, tempoVars, fmtVars, pipeVars>>

\* lines 184-218, one iteration
GroupIter ==
  /\ pc = "group_loop"
  /\ i <= Len(events)
  /\ LET st == LoopBody([current_group |-> current_group,
                         current_time  |-> current_time,
                         grouped       |-> grouped], events[i], threshold)
     IN /\ current_group' = st.current_group
        /\ current_time' = st.current_time
        /\ grouped' = st.grouped
  /\ i' = i + 1
  /\ UNCHANGED <<pc, den, events, threshold, tempoVars, fmtVars, pipeVars>>

\* lines 220-230
GroupFinish ==
  /\ pc = "group_loop"
  /\ i > Len(events)
  /\ grouped' = CloseGroup(grouped, current_group, current_time)
  /\ pc' = "group_done"
  /\ UNCHANGED <<den, events, threshold, i, current_group, current_time, tempoVars, fmtVars, pipeVars>>

NextGroup == GroupBegin \/ GroupIter \/ GroupFinish

SpecGroup == InitGroup /\ [][NextGroup]_vars

(***************************************************************************)
(* Specification of the tempo map built from a file and queried tick by    *)
(* tick                                                                    *)
(***************************************************************************)
\* at most MaxTracks tracks holding at most MaxMsgs messages in all; ticks 0..MaxTick queried
MaxTracks == 2
MaxMsgs == 3
MaxTick == 5

DeltaValues == {0, 2}
TempoValues == {250000, 1000000}
TicksPerBeatValues == {1, 480}

TempoMsgs == {SetTempo(d, t) : d \in DeltaValues, t \in TempoValues} \cup {NoteOn(d) : d \in DeltaValues}

SeqsUpTo(S, n) == UNION {[1..k -> S] : k \in 0..n}

\* the tracks of a file: its messages in file order, each owned by a track
TracksOf(flat, owner, n) ==
  [k \in 1..n |-> SelectSeq([j \in 1..Len(flat) |-> <<owner[j], flat[j]>>], LAMBDA p : p[1] = k)]

Payload(track) == [j \in 1..Len(track) |-> track[j][2]]

InitTempo ==
  /\ pc = "tempo_start"
  /\ \E n \in 0..MaxTracks, tpb \in TicksPerBeatValues :
       \E flat \in SeqsUpTo(TempoMsgs, MaxMsgs) : \E owner \in [1..Len(flat) -> 1..n] :
          /\ \A j \in 1..(Len(flat) - 1) : owner[j] <= owner[j + 1]
          /\ mid = [tracks |-> [k \in 1..n |-> Payload(TracksOf(flat, owner, n)[k])],
                    ticks_per_beat |-> tpb]
  /\ den = SecondsDen(mid.ticks_per_beat)
  /\ tempo_map = <<>>
  /\ tick = -1
  /\ seconds = 0
  /\ prev_seconds = 0
  /\ fmt_seconds = 0
  /\ fmt_out = <<>>
  /\ PipeIdle
  /\ events = <<>>
  /\ threshold = 0
  /\ i = 0
  /\ current_group = <<>>
  /\ current_time = 0
  /\ grouped = <<>>

\* tempo_map, ticks_per_beat = build_tempo_map(mid)
TempoBuild ==
  /\ pc = "tempo_start"
  /\ tempo_map' = BuildTempoMap(mid)
  /\ pc' = "tempo_built"
  /\ UNCHANGED <<den, mid, tick, seconds, prev_seconds, grouperVars, fmtVars, pipeVars>>

\* ticks_to_seconds(tick, tempo_map, ticks_per_beat) for the next tick
TempoQuery ==
  /\ pc \in {"tempo_built", "tempo_query"}
  /\ tick < MaxTick
  /\ tick' = tick + 1
  /\ prev_seconds' = seconds
  /\ seconds' = TicksToSeconds(tick + 1, tempo_map)
  /\ pc' = "tempo_query"
  /\ UNCHANGED <<den, mid, tempo_map, grouperVars, fmtVars, pipeVars>>

NextTempo == TempoBuild \/ TempoQuery

SpecTempo == InitTempo /\ [][NextTempo]_vars

\* C3: for every set of tracks, zero included, the built list starts at tick 0
\* and has strictly increasing ticks; the pool holds the default (0, 500000)
\* and every tempo event at the sum of the deltas of its own track up to it;
\* each pooled tick has exactly one breakpoint, carrying the tempo of the
\* entry that is last in pool order among those of that tick; so the tick-0
\* tempo is 500000 unless an explicit tempo event occurs at tick 0.
C3_TempoMapShape ==
  pc # "tempo_start" =>
    LET RECURSIVE AbsTick(_, _)
        AbsTick(k, j) == IF j = 0 THEN 0 ELSE AbsTick(k, j - 1) + mid.tracks[k][j].time
        Entries == {<<0, 0>>} \cup
                   {<<k, j>> \in (1..Len(mid.tracks)) \X (1..(MaxMsgs + 1)) :
                       j <= Len(mid.tracks[k]) /\ mid.tracks[k][j].type = "set_tempo"}
        TickOf(e)  == IF e = <<0, 0>> THEN 0 ELSE AbsTick(e[1], e[2])
        TempoOf(e) == IF e = <<0, 0>> THEN 500000 ELSE mid.tracks[e[1]][e[2]].tempo
        Later(a, b) == a[1] > b[1] \/ (a[1] = b[1] /\ a[2] > b[2])
        LastAt(t) == CHOOSE e \in Entries :
                       TickOf(e) = t /\ \A f \in Entries : TickOf(f) = t => ~Later(f, e)
    IN /\ Len(tempo_map) >= 1
       /\ tempo_map[1][1] = 0
       /\ \A k \in 1..(Len(tempo_map) - 1) : tempo_map[k][1] < tempo_map[k + 1][1]
       /\ {tempo_map[k][1] : k \in 1..Len(tempo_map)} = {TickOf(e) : e \in Entries}
       /\ \A k \in 1..Len(tempo_map) : tempo_map[k][2] = TempoOf(LastAt(tempo_map[k][1]))
       /\ (tempo_map[1][2] # 500000 => \E e \in Entries \ {<<0, 0>>} : TickOf(e) = 0)
       /\ ((\A e \in Entries \ {<<0, 0>>} : TickOf(e) # 0) => tempo_map[1][2] = 500000)

\* C3 witness: two tracks, both with a tempo event at the same later tick but
\* different tempos, and an explicit tempo at tick 0 replacing the default
C3_Witness ==
  /\ pc = "tempo_built"
  /\ Len(mid.tracks) = 2
  /\ tempo_map = << <<0, 250000>>, <<2, 1000000>> >>
  /\ mid.tracks[1] = << SetTempo(0, 250000), SetTempo(2, 250000) >>
  /\ mid.tracks[2] = << SetTempo(2, 1000000) >>

\* C2: on a tempo map with strictly increasing ticks starting at 0, the result
\* at tick is the sum over the unit steps (k-1, k], k = 1..tick, of the tempo of
\* the last breakpoint strictly before k (a breakpoint's tempo applies strictly
\* after its tick); it is 0 at tick 0, non-decreasing in tick, and at a breakpoint
\* equals the value from below continued at the earlier segment's tempo.
C2_PiecewiseIntegral ==
  pc = "tempo_query" =>
    LET TempoBefore(k) ==
          LET j == CHOOSE j \in 1..Len(tempo_map) :
                     /\ tempo_map[j][1] < k
                     /\ \A l \in 1..Len(tempo_map) : tempo_map[l][1] < k => l <= j
          IN tempo_map[j][2]
        RECURSIVE Integral(_)
        Integral(t) == IF t = 0 THEN 0 ELSE Integral(t - 1) + TempoBefore(t)
    IN /\ seconds = Integral(tick)
       /\ tick = 0 => seconds = 0
       /\ tick > 0 => prev_seconds <= seconds
       /\ \A j \in 2..Len(tempo_map) :
            tempo_map[j][1] = tick => seconds = prev_seconds + tempo_map[j - 1][2]

\* C2 witness: a query exactly on a breakpoint that changes the tempo, past an
\* earlier tempo change
C2_Witness ==
  /\ pc = "tempo_query"
  /\ Len(tempo_map) = 3
  /\ tick = tempo_map[3][1]
  /\ tempo_map[1][2] # tempo_map[2][2]
  /\ tempo_map[2][2] # tempo_map[3][2]
  /\ seconds > 0

(***************************************************************************)
(* Specification of format_lrc_time on every input of [0, 5999.99] that is *)
(* a multiple of 1/256 s (exact in binary floating point, so the float     *)
(* arithmetic of lines 150-152 is exact on it), and on 59.996              *)
(***************************************************************************)
\* seconds = fmt_seconds/den within [0, 5999.99]
FmtInRange(num, d) == 0 <= num /\ num * 100 <= 599999 * d

InitFmt ==
  /\ pc = "fmt_start"
  /\ \/ den = 256 /\ fmt_seconds \in 0..(6000 * 256)
     \/ den = 1000 /\ fmt_seconds = 59996
  /\ FmtInRange(fmt_seconds, den)
  /\ fmt_out = <<>>
  /\ PipeIdle
  /\ mid = NoMid
  /\ tempo_map = <<>>
  /\ tick = 0
  /\ seconds = 0
  /\ prev_seconds = 0
  /\ events = <<>>
  /\ threshold = 0
  /\ i = 0
  /\ current_group = <<>>
  /\ current_time = 0
  /\ grouped = <<>>

\* format_lrc_time(seconds)
FmtFormat ==
  /\ pc = "fmt_start"
  /\ fmt_out' = FormatLrcTime(fmt_seconds, den)
  /\ pc' = "fmt_done"
  /\ UNCHANGED <<den, fmt_seconds, grouperVars, tempoVars, pipeVars>>

NextFmt == FmtFormat

SpecFmt == InitFmt /\ [][NextFmt]_vars

\* C4: for seconds in [0, 5999.99] the output is [mm:ss.cc] with
\* mm = floor(seconds/60), ss = floor(seconds mod 60), cc = the nearest
\* integer to the fractional part times 100, then cc = 100 carried into ss and
\* ss = 60 into mm; 0 <= ss <= 59, 0 <= cc <= 99, each field exactly two
\* digits, and parsing the output gives back (mm, ss, cc); 59.996 gives
\* [01:00.00] and 0.0 gives [00:00.00].
C4_FormatFields ==
  pc = "fmt_done" =>
    LET mm0 == fmt_seconds \div (60 * den)
        rem == fmt_seconds - mm0 * 60 * den
        ss0 == rem \div den
        fr  == rem - ss0 * den
        Near(c) == 2 * c * den - 200 * fr <= den /\ 200 * fr - 2 * c * den <= den
        Carry(c) == IF c = 100
                      THEN IF ss0 = 59 THEN <<mm0 + 1, 0, 0>> ELSE <<mm0, ss0 + 1, 0>>
                      ELSE <<mm0, ss0, c>>
        D(n) == <<DigitChars[(n \div 10) + 1], DigitChars[(n % 10) + 1]>>
        Str(f) == <<"[">> \o D(f[1]) \o <<":">> \o D(f[2]) \o <<".">> \o D(f[3]) \o <<"]">>
    IN /\ Len(fmt_out) = 10
       /\ LrcMatch(fmt_out)
       /\ \E c \in {(100 * fr) \div den, ((100 * fr) \div den) + 1} :
            /\ Near(c)
            /\ Carry(c)[1] \in 0..99 /\ Carry(c)[2] \in 0..59 /\ Carry(c)[3] \in 0..99
            /\ fmt_out = Str(Carry(c))
            /\ <<LrcGroups(fmt_out).m, LrcGroups(fmt_out).s, LrcGroups(fmt_out).hs>> = Carry(c)
       /\ (fmt_seconds = 59996 /\ den = 1000) =>
            fmt_out = <<"[", "0", "1", ":", "0", "0", ".", "0", "0", "]">>
       /\ fmt_seconds = 0 =>
            fmt_out = <<"[", "0", "0", ":", "0", "0", ".", "0", "0", "]">>

\* C4 witness: 59.996 was formatted, the carry went through ss = 60 into mm
C4_Witness ==
  /\ pc = "fmt_done"
  /\ fmt_seconds = 59996 /\ den = 1000
  /\ fmt_out = <<"[", "0", "1", ":", "0", "0", ".", "0", "0", "]">>

(***************************************************************************)
(* Specification of midi_to_lrc run on a file, stage by stage              *)
(***************************************************************************)
MaxLyrics == 3
MaxLlmLines == 2

OtherName == <<"s","y","s","e","x">>
T_CLat    == <<"C","L","@","@">>
T_lo_nl   == <<"l","o","\n">>

\* the lyric-carrying messages; with 2 ticks per beat at the default tempo a
\* delta of 1 is 0.25 s and a delta of 2 is 0.5 s
LyricMsgs ==
  { Lyrics(2, T_No), Lyrics(2, T_World), TextMsg(1, T_lo_nl),
    Sysex(1, T_CLat), Sysex(2, <<" ">> \o T_Yes \o <<" ">>) }

TrackNames == {TRACK_NAME, OtherName}

Conductors ==
  { << SetTempo(0, 1000000), TrackNameMsg(0, OtherName) >>,
    << TrackNameMsg(0, TRACK_NAME), NoteOn(2) >> }

\* the track lists of a file: none, a lyric track, or a conductor and a lyric track
PipeTrackLists(t) == {<<>>, <<t>>} \cup {<<c, t>> : c \in Conductors}

\* USE_LLM, OPENAI_API_KEY set, prompts/syllable_merger.txt present
PipeEnvs ==
  { [USE_LLM |-> FALSE, api_key |-> FALSE, prompt_file |-> FALSE],
    [USE_LLM |-> TRUE,  api_key |-> FALSE, prompt_file |-> TRUE],
    [USE_LLM |-> TRUE,  api_key |-> TRUE,  prompt_file |-> FALSE],
    [USE_LLM |-> TRUE,  api_key |-> TRUE,  prompt_file |-> TRUE] }

L_World == <<"[","0","0",":","0","1",".","0","0","]">> \o T_World
L_No    == <<"[","0","0",":","0","0",".","5","0","]">> \o T_No
L_Junk  == <<"j","u","n","k">>
LlmLines == {L_World, L_No, L_Junk}

RECURSIVE JoinBar(_)
JoinBar(ls) ==
  IF ls = <<>> THEN <<>>
  ELSE IF Len(ls) = 1 THEN ls[1]
  ELSE ls[1] \o <<"|">> \o JoinBar(Tail(ls))

\* what client.chat.completions.create does: raise, or return a content
LlmReplies ==
  {[kind |-> "exception", content |-> <<>>]}
  \cup {[kind |-> "content", content |-> JoinBar(ls)] : ls \in SeqsUpTo(LlmLines, MaxLlmLines)}

NoReply == [kind |-> "none", content |-> <<>>]

\* the content of the output path before the run
OldContent == <<"o", "l", "d", "\n">>

InitPipe ==
  /\ pc = "pipe_start"
  /\ \E nm \in TrackNames, body \in SeqsUpTo(LyricMsgs, MaxLyrics) :
       \E ts \in PipeTrackLists(<<TrackNameMsg(0, nm)>> \o body) :
          mid = [tracks |-> ts, ticks_per_beat |-> 2]
  /\ env \in PipeEnvs
  /\ den = SecondsDen(mid.ticks_per_beat)
  /\ threshold = TimeThreshold(den)
  /\ llm_reply = NoReply
  /\ target_track = 0
  /\ filtered_events = <<>>
  /\ lrc_file = [opened |-> FALSE, content |-> OldContent]
  /\ tempo_map = <<>>
  /\ events = <<>>
  /\ grouped = <<>>
  /\ tick = 0
  /\ seconds = 0
  /\ prev_seconds = 0
  /\ fmt_seconds = 0
  /\ fmt_out = <<>>
  /\ i = 0
  /\ current_group = <<>>
  /\ current_time = 0

\* lines 310-312
PipeLoad ==
  /\ pc = "pipe_start"
  /\ tempo_map' = BuildTempoMap(mid)
  /\ pc' = "pipe_find"
  /\ UNCHANGED <<den, mid, tick, seconds, prev_seconds, grouperVars, fmtVars, pipeVars>>

\* lines 315-326
PipeFindTrack ==
  /\ pc = "pipe_find"
  /\ target_track' = FindTargetTrack(mid.tracks, 1)
  /\ pc' = IF target_track' = 0 THEN "pipe_error" ELSE "pipe_extract"
  /\ UNCHANGED <<den, tempoVars, grouperVars, fmtVars, env, llm_reply, filtered_events, lrc_file>>

\* lines 328-332
PipeExtract ==
  /\ pc = "pipe_extract"
  /\ events' = SortByKey(ExtractLyricsFromTrack(mid.tracks[target_track], tempo_map))
  /\ pc' = "pipe_group"
  /\ UNCHANGED <<den, tempoVars, threshold, i, current_group, current_time, grouped, fmtVars, pipeVars>>

\* line 338
PipeGroup ==
  /\ pc = "pipe_group"
  /\ grouped' = GroupSyllablesByTime(events, threshold)
  /\ events' = GroupSyllablesByTime(events, threshold)
  /\ pc' = "pipe_llm"
  /\ UNCHANGED <<den, tempoVars, threshold, i, current_group, current_time, fmtVars, pipeVars>>

\* lines 341-345: the request is made only with a key and a prompt file
PipeCorrect ==
  /\ pc = "pipe_llm"
  /\ env.USE_LLM
  /\ \E reply \in IF env.api_key /\ env.prompt_file THEN LlmReplies ELSE {NoReply} :
       /\ llm_reply' = reply
       /\ events' = CorrectWithLlm(events, env, reply, den)
  /\ pc' = "pipe_filter"
  /\ UNCHANGED <<den, tempoVars, threshold, i, current_group, current_time, grouped, fmtVars,
                 env, target_track, filtered_events, lrc_file>>

\* lines 346-347
PipeSkipCorrect ==
  /\ pc = "pipe_llm"
  /\ ~env.USE_LLM
  /\ pc' = "pipe_filter"
  /\ UNCHANGED <<den, tempoVars, grouperVars, fmtVars, pipeVars>>

\* lines 353-408
PipeFilter ==
  /\ pc = "pipe_filter"
  /\ filtered_events' = FilterEvents(events)
  /\ pc' = "pipe_write"
  /\ UNCHANGED <<den, tempoVars, grouperVars, fmtVars, env, llm_reply, target_track, lrc_file>>

\* lines 413-431: open(lrc_path, "w") truncates, the loop writes
PipeWrite ==
  /\ pc = "pipe_write"
  /\ lrc_file' = [opened |-> TRUE, content |-> WrittenText(filtered_events, den)]
  /\ pc' = "pipe_done"
  /\ UNCHANGED <<den, tempoVars, grouperVars, fmtVars, env, llm_reply, target_track, filtered_events>>

NextPipe ==
  \/ PipeLoad \/ PipeFindTrack \/ PipeExtract \/ PipeGroup
  \/ PipeCorrect \/ PipeSkipCorrect \/ PipeFilter \/ PipeWrite

SpecPipe == InitPipe /\ [][NextPipe]_vars

(***************************************************************************)
(* Claims about midi_to_lrc (SpecPipe)                                     *)
(***************************************************************************)
\* C5: if no track holds a track-name event whose name is exactly the
\* configured name, the run aborts with the error and the output file is never
\* opened, truncated or written; the file is written only when a track matched.
C5_NoTrackNoOutput ==
  LET matching == \E k \in 1..Len(mid.tracks) : \E j \in 1..Len(mid.tracks[k]) :
                     /\ mid.tracks[k][j].type = "track_name"
                     /\ mid.tracks[k][j].name = <<"S","y","s","E","x","-","D","a","t","e","n">>
  IN /\ ~matching => /\ pc \in {"pipe_start", "pipe_find", "pipe_error"}
                     /\ lrc_file = [opened |-> FALSE, content |-> OldContent]
     /\ (lrc_file.opened \/ lrc_file.content # OldContent) => matching

\* C5 witness: the run aborted on a file with two tracks, lyrics and a track
\* name that differs from the configured one
C5_Witness ==
  /\ pc = "pipe_error"
  /\ Len(mid.tracks) = 2
  /\ \E j \in 1..Len(mid.tracks[2]) : mid.tracks[2][j].type = "lyrics"
  /\ mid.tracks[2][1].type = "track_name"
  /\ ~lrc_file.opened

\* C6: in every run that writes output, correction enabled or not, the lines
\* of the file are in ascending time order, there is one line per surviving
\* (non-blank) grouped and filtered entry, and every line is a timestamp
\* followed by non-empty text.
C6_OutputLines ==
  pc = "pipe_done" =>
    LET c == lrc_file.content
        pieces == SplitOn(c, {"\n"}, <<>>)
        lines == SubSeq(pieces, 1, Len(pieces) - 1)
        surviving == SelectSeq(filtered_events, LAMBDA e : ~IsBlank(e[2]))
        Time(l) == LrcGroups(l).m * 6000 + LrcGroups(l).s * 100 + LrcGroups(l).hs
    IN /\ pieces[Len(pieces)] = <<>>
       /\ Len(lines) = Len(surviving)
       /\ \A k \in 1..Len(lines) : LrcMatch(lines[k]) /\ ~IsBlank(LrcGroups(lines[k]).text)
       /\ \A k \in 1..(Len(lines) - 1) : Time(lines[k]) <= Time(lines[k + 1])

C8_DropBeforeFirstReal ==
  pc \in {"pipe_write", "pipe_done"} =>
    \A idx \in 1..Len(events) :
      (IsRealText(events[idx][2]) /\ \A j \in 1..(idx - 1) : ~IsRealText(events[j][2]))
        => /\ Len(filtered_events) = Len(events) - idx + 1
           /\ \A k \in idx..Len(events) : filtered_events[k - idx + 1] = events[k]

\* C8 witness: a non-real entry before the first real text was dropped, a
\* non-real entry after it was kept
C8_Witness ==
  /\ pc = "pipe_write"
  /\ Len(events) = 3
  /\ ~IsRealText(events[1][2]) /\ IsRealText(events[2][2]) /\ ~IsRealText(events[3][2])
  /\ filtered_events = <<events[2], events[3]>>

(***************************************************************************)
(* Claims about group_syllables_by_time (SpecGroup)                        *)
(***************************************************************************)
Ex1_In  == << <<0, T_Hel>>, <<2, T_lo>>, <<9, T_World>> >>
Ex1_Out == << <<0, T_Hel \o T_lo>>, <<9, T_World>> >>
Ex2_In  == << <<0, T_Yes>>, <<1, T_No>> >>
Ex2_Out == << <<0, T_Yes>>, <<1, T_No>> >>

C9_RunsOfFragments ==
  pc = "group_done" =>
    LET K == SelectSeq(events, LAMBDA e : ~IsBlank(e[2]))
        n == Len(K)
        RunStart(cuts, k) == CHOOSE s \in 1..k :
                               /\ (s = 1 \/ (s - 1) \in cuts)
                               /\ \A c \in cuts : ~(s <= c /\ c < k)
        RunEnd(cuts, k) == CHOOSE t \in k..n :
                               /\ (t = n \/ t \in cuts)
                               /\ \A c \in cuts : ~(k <= c /\ c < t)
        Starts(cuts) == {s \in 1..n : s = 1 \/ (s - 1) \in cuts}
        LineAt(cuts, s) == <<K[s][1], JoinTexts(SubSeq(K, s, RunEnd(cuts, s)))>>
        NthStart(cuts, j) == CHOOSE s \in Starts(cuts) :
                               Cardinality({u \in Starts(cuts) : u < s}) = j - 1
        Lines(cuts) == [j \in 1..Cardinality(Starts(cuts)) |-> LineAt(cuts, NthStart(cuts, j))]
    IN /\ \E cuts \in SUBSET (1..(n - 1)) : grouped = Lines(cuts)
       /\ \A j \in 1..(Len(grouped) - 1) : grouped[j][1] <= grouped[j + 1][1]

\* C10: a blank fragment at any position, the first included, is skipped: the
\* output equals the output for the input with the blank fragments removed.
C10_BlankSkipped ==
  pc = "group_done" =>
    grouped = GroupSyllablesByTime(SelectSeq(events, LAMBDA e : ~IsBlank(e[2])), threshold)

====
